---- MODULE Spec2Model ----
(***************************************************************************)
(* Model of mint-bot's conversation thread manager (src/chat_manager.py)   *)
(* as it is driven by the Telegram handlers of src/bot_core.py.            *)
(*                                                                         *)
(* The store self.active_chats is a Python dict, whose iteration order is  *)
(* its insertion order: it is modelled as a sequence of entries            *)
(* [key, messages, last_interaction, chat_id], one per dict item.          *)
(* A handler is a coroutine: the steps between two awaits run without      *)
(* interleaving, and each ChatManager call of a handler is one step that   *)
(* records the call and what it returned in ret.                           *)
(***************************************************************************)
EXTENDS Integers, Sequences, FiniteSets, TLC

\* ------------------------------------------------------------------ bounds
MaxMsgId == 4              \* Telegram message ids handed out per chat
MaxTime == 2               \* the clock time.time() runs over 0..MaxTime
ChatHistoryExpirySeconds == 1   \* config.chat_history_expiry_days, scaled
ContextWindowTokens == 12       \* config.context_window_tokens, scaled

\* The chats the bot gets updates from (update.effective_chat.id).
Chats == {1, 2}

\* ------------------------------------------------------------- python values
\* Optional[T]: None is the empty tuple, a value v is <<v>>.
None == <<>>
Some(v) == <<v>>

\* What a step records of the call it made: the operation, its arguments,
\* what it returned, and the keys it logged.
Ret(op, args, value, log) == [op |-> op, args |-> args, value |-> value, log |-> log]

NoCall == Ret("none", <<>>, None, <<>>)

\* Texts of the model and what the tokenizer makes of them.
UserTexts == {"hi"}
AiTexts == {"", "ok", "I am fine"}
SystemPrompts == {"", "long system prompt"}

TokenizerEncodeLen(text) ==
    CASE text = "hi" -> 1
      [] text = "ok" -> 1
      [] text = "I am fine" -> 3
      [] text = "user" -> 1
      [] text = "assistant" -> 1
      [] text = "long system prompt" -> 13
      [] text = "Error: AI backend client not configured." -> 9
      [] text = "Error: An unexpected error occurred while contacting AI." -> 11
      [] text = "AI returned an empty response." -> 7
      [] text = "update_user_profile" -> 3

\* ai_handler.count_tokens: 0 for an empty or absent text.
count_tokens(text) ==
    IF text = "" THEN 0 ELSE TokenizerEncodeLen(text)

\* count_message_tokens counting the content alone, the role for nothing.
count_message_tokens_of_content(message) ==
    4 + count_tokens(message.content)
      - (IF "name" \in DOMAIN message THEN 1 ELSE 0)

\* ai_handler.count_message_tokens of a message dict with the keys role and
\* content and perhaps name: 4, plus the tokens of every value of the dict
\* (the role's too), minus 1 for a "name" key.
count_message_tokens(message) ==
    4 + count_tokens(message.role) + count_tokens(message.content)
      + (IF "name" \in DOMAIN message THEN count_tokens(message.name) - 1 ELSE 0)

\* ------------------------------------------------------------- dict helpers
Keys(chats) == {chats[i].key : i \in DOMAIN chats}

IndexOf(chats, k) == CHOOSE i \in DOMAIN chats : chats[i].key = k

Lookup(chats, k) == chats[IndexOf(chats, k)]

\* d[k] = v: an existing key keeps its place, a new one goes last.
DictSet(chats, entry) ==
    IF entry.key \in Keys(chats)
    THEN [chats EXCEPT ![IndexOf(chats, entry.key)] = entry]
    ELSE Append(chats, entry)

SetMin(S) == CHOOSE x \in S : \A y \in S : x <= y

SetMax(S) == CHOOSE x \in S : \A y \in S : x >= y

\* ------------------------------------------------------------ ChatManager
Message(role, content, id) ==
    [role |-> role, content |-> content, telegram_message_id |-> id]

Entry(key, messages, t, chat_id) ==
    [key |-> key, messages |-> messages, last_interaction |-> t,
     chat_id |-> chat_id]

HasMessage(entry, id) ==
    \E j \in DOMAIN entry.messages : entry.messages[j].telegram_message_id = id

\* _find_thread_key_for_reply without the test of chat_data["chat_id"].
find_thread_key_in_any_chat(chats, replied_to, chat_id) ==
    LET hits == {i \in DOMAIN chats : HasMessage(chats[i], replied_to)}
    IN IF hits = {} THEN None ELSE Some(chats[SetMin(hits)].key)

\* _find_thread_key_for_reply: the first item, in dict order, of the given
\* chat with a message of the given id; None when there is none.
find_thread_key_for_reply(chats, replied_to, chat_id) ==
    LET hits == {i \in DOMAIN chats :
                    chats[i].chat_id = chat_id /\ HasMessage(chats[i], replied_to)}
    IN IF hits = {} THEN None ELSE Some(chats[SetMin(hits)].key)

\* start_new_chat storing the bot's first reply under the id of the /mint
\* message instead of its own.
start_new_chat_one_id(chats, user_content, user_id, chat_id, bot_id, bot_content, t) ==
    DictSet(chats,
            Entry(user_id,
                  <<Message("user", user_content, user_id),
                    Message("assistant", bot_content, user_id)>>,
                  t, chat_id))

\* start_new_chat storing the /mint message alone, the bot's first reply
\* left to a later append.
start_new_chat_without_reply(chats, user_content, user_id, chat_id, bot_id, bot_content, t) ==
    DictSet(chats,
            Entry(user_id, <<Message("user", user_content, user_id)>>, t, chat_id))

\* start_new_chat: a deque of the /mint message and the bot's first reply,
\* assigned to active_chats[initial_user_telegram_message_id].
start_new_chat(chats, user_content, user_id, chat_id, bot_id, bot_content, t) ==
    DictSet(chats,
            Entry(user_id,
                  <<Message("user", user_content, user_id),
                    Message("assistant", bot_content, bot_id)>>,
                  t, chat_id))

\* add_message_to_chat returning True also for a key it does not find.
add_message_reporting_success(chats, thread_key, role, content, id, t) ==
    IF thread_key \notin Keys(chats)
    THEN [chats |-> chats, value |-> TRUE]
    ELSE LET i == IndexOf(chats, thread_key)
         IN [chats |-> [chats EXCEPT
                          ![i].messages = Append(@, Message(role, content, id)),
                          ![i].last_interaction = t],
             value |-> TRUE]

\* add_message_to_chat making the thread it does not find (a defaultdict).
add_message_creating_thread(chats, thread_key, role, content, id, t) ==
    IF thread_key \notin Keys(chats)
    THEN [chats |-> Append(chats, Entry(thread_key,
                                        <<Message(role, content, id)>>, t, 0)),
          value |-> TRUE]
    ELSE LET i == IndexOf(chats, thread_key)
         IN [chats |-> [chats EXCEPT
                          ![i].messages = Append(@, Message(role, content, id)),
                          ![i].last_interaction = t],
             value |-> TRUE]

\* add_message_to_chat leaving last_interaction as it was.
add_message_keeping_time(chats, thread_key, role, content, id, t) ==
    IF thread_key \notin Keys(chats)
    THEN [chats |-> chats, value |-> FALSE]
    ELSE LET i == IndexOf(chats, thread_key)
         IN [chats |-> [chats EXCEPT
                          ![i].messages = Append(@, Message(role, content, id))],
             value |-> TRUE]

\* add_message_to_chat: [chats, value], value the bool it returns.
add_message_to_chat(chats, thread_key, role, content, id, t) ==
    IF thread_key \notin Keys(chats)
    THEN [chats |-> chats, value |-> FALSE]
    ELSE LET i == IndexOf(chats, thread_key)
         IN [chats |-> [chats EXCEPT
                          ![i].messages = Append(@, Message(role, content, id)),
                          ![i].last_interaction = t],
             value |-> TRUE]

\* get_message_by_telegram_id looking through every thread of the store,
\* whatever thread_key it is given.
get_message_from_any_thread(chats, thread_key, id) ==
    LET hits == {i \in DOMAIN chats : HasMessage(chats[i], id)}
    IN IF hits = {} THEN None
       ELSE LET msgs == chats[SetMin(hits)].messages
            IN Some(msgs[SetMin({j \in DOMAIN msgs :
                                    msgs[j].telegram_message_id = id})])

\* get_message_by_telegram_id: the first message of the thread with the id.
get_message_by_telegram_id(chats, thread_key, id) ==
    IF thread_key \notin Keys(chats) THEN None
    ELSE LET msgs == Lookup(chats, thread_key).messages
             hits == {j \in DOMAIN msgs : msgs[j].telegram_message_id = id}
         IN IF hits = {} THEN None ELSE Some(msgs[SetMin(hits)])

AiMessageFormat(msg) == [role |-> msg.role, content |-> msg.content]

\* The loop of get_history_for_ai with continue in place of break: a message
\* that does not fit is skipped and older ones are still admitted.
RECURSIVE TrimSkipping(_, _, _, _)
TrimSkipping(msgs, i, current_tokens, budget) ==
    IF i = 0 THEN <<>>
    ELSE LET m == AiMessageFormat(msgs[i])
             msg_tokens == count_message_tokens(m)
         IN IF current_tokens + msg_tokens <= budget
            THEN Append(TrimSkipping(msgs, i - 1, current_tokens + msg_tokens, budget), m)
            ELSE TrimSkipping(msgs, i - 1, current_tokens, budget)

\* The loop of get_history_for_ai over reversed(original_messages), at
\* message i with current_tokens consumed: admit (appendleft) while the
\* message fits, break at the first that does not.
RECURSIVE TrimFrom(_, _, _, _)
TrimFrom(msgs, i, current_tokens, budget) ==
    IF i = 0 THEN <<>>
    ELSE LET m == AiMessageFormat(msgs[i])
             msg_tokens == count_message_tokens(m)
         IN IF current_tokens + msg_tokens <= budget
            THEN Append(TrimFrom(msgs, i - 1, current_tokens + msg_tokens, budget), m)
            ELSE <<>>

\* get_history_for_ai with current_tokens started at 0 instead of at
\* system_prompt_tokens.
get_history_without_reserve(chats, thread_key, system_prompt_tokens) ==
    IF thread_key \notin Keys(chats) THEN None
    ELSE LET msgs == Lookup(chats, thread_key).messages
         IN Some(TrimFrom(msgs, Len(msgs), 0, ContextWindowTokens))

\* get_history_for_ai returning None also when no turn fits.
get_history_none_when_nothing_fits(chats, thread_key, system_prompt_tokens) ==
    IF thread_key \notin Keys(chats) THEN None
    ELSE LET msgs == Lookup(chats, thread_key).messages
             trimmed == TrimFrom(msgs, Len(msgs), system_prompt_tokens,
                                 ContextWindowTokens)
         IN IF trimmed = <<>> THEN None ELSE Some(trimmed)

\* get_history_for_ai: None for an unknown key, else the trimmed list.
get_history_for_ai(chats, thread_key, system_prompt_tokens) ==
    IF thread_key \notin Keys(chats) THEN None
    ELSE LET msgs == Lookup(chats, thread_key).messages
         IN Some(TrimFrom(msgs, Len(msgs), system_prompt_tokens, ContextWindowTokens))

\* get_history_for_ai also cutting the stored deque down to what it returns.
store_trimmed_by_get_history(chats, thread_key, system_prompt_tokens) ==
    IF thread_key \notin Keys(chats) THEN chats
    ELSE LET i == IndexOf(chats, thread_key)
             msgs == chats[i].messages
             kept == Len(TrimFrom(msgs, Len(msgs), system_prompt_tokens,
                                  ContextWindowTokens))
         IN [chats EXCEPT ![i].messages =
                SubSeq(msgs, Len(msgs) - kept + 1, Len(msgs))]

\* What get_history_for_ai leaves in self.active_chats: it assigns to no
\* item and to no deque of the store.
store_after_get_history(chats, thread_key, system_prompt_tokens) == chats

\* The expiry test with the two times the wrong way round.
IsExpiredReversed(entry, t) ==
    entry.last_interaction - t > ChatHistoryExpirySeconds

\* The expiry test with >= in place of >.
IsExpiredAtBoundary(entry, t) ==
    t - entry.last_interaction >= ChatHistoryExpirySeconds

\* cleanup_expired_chats: expired_keys, in dict order.
IsExpired(entry, t) == t - entry.last_interaction > ChatHistoryExpirySeconds

expired_keys(chats, t) ==
    LET hit == SelectSeq(chats, LAMBDA e : IsExpired(e, t))
    IN [i \in DOMAIN hit |-> hit[i].key]

\* cleanup_expired_chats emptying the deque of each expired thread in place
\* of deleting its item.
cleanup_clearing_turns(chats, t) ==
    [i \in DOMAIN chats |->
        IF IsExpired(chats[i], t) THEN [chats[i] EXCEPT !.messages = <<>>]
        ELSE chats[i]]

\* cleanup_expired_chats deleting the first expired item only.
cleanup_removing_first_only(chats, t) ==
    LET hit == {i \in DOMAIN chats : IsExpired(chats[i], t)}
    IN IF hit = {} THEN chats
       ELSE LET first == CHOOSE i \in hit : \A j \in hit : i <= j
            IN SubSeq(chats, 1, first - 1) \o SubSeq(chats, first + 1, Len(chats))

\* cleanup_expired_chats: the store after del active_chats[key] for each.
cleanup_expired_chats(chats, t) ==
    SelectSeq(chats, LAMBDA e : ~IsExpired(e, t))

\* ------------------------------------------------------------ persistence
\* str(int) and int(str) on decimal strings, a string being the sequence of
\* its characters.
DigitChars == <<"0", "1", "2", "3", "4", "5", "6", "7", "8", "9">>

RECURSIVE IntToStr(_)
IntToStr(n) ==
    IF n < 0 THEN <<"-">> \o IntToStr(-n)
    ELSE IF n < 10 THEN <<DigitChars[n + 1]>>
    ELSE Append(IntToStr(n \div 10), DigitChars[(n % 10) + 1])

IsDigit(ch) == \E d \in 1..10 : DigitChars[d] = ch

DigitValue(ch) == (CHOOSE d \in 1..10 : DigitChars[d] = ch) - 1

RECURSIVE DigitsToNat(_)
DigitsToNat(str) ==
    IF Len(str) = 0 THEN 0
    ELSE 10 * DigitsToNat(SubSeq(str, 1, Len(str) - 1)) + DigitValue(str[Len(str)])

\* int(str): None stands for the ValueError of a string that is no integer.
StrToInt(str) ==
    LET body == IF Len(str) > 0 /\ str[1] = "-" THEN Tail(str) ELSE str
    IN IF Len(body) = 0 \/ \E i \in DOMAIN body : ~IsDigit(body[i]) THEN None
       ELSE IF Len(str) > 0 /\ str[1] = "-" THEN Some(-DigitsToNat(body))
       ELSE Some(DigitsToNat(body))

\* The keys _serialize_active_chats writes into each item's value.
ItemFields == {"messages", "last_interaction", "chat_id"}

\* _serialize_active_chats keying each item by str(chat_id).
serialize_keyed_by_chat_id(chats) ==
    [i \in DOMAIN chats |->
        [key |-> IntToStr(chats[i].chat_id),
         messages |-> chats[i].messages,
         last_interaction |-> chats[i].last_interaction,
         chat_id |-> chats[i].chat_id,
         fields |-> ItemFields]]

\* _serialize_active_chats: one item per thread, keyed by str(thread_key),
\* its deque as a list.
serialize_active_chats(chats) ==
    [i \in DOMAIN chats |->
        [key |-> IntToStr(chats[i].key),
         messages |-> chats[i].messages,
         last_interaction |-> chats[i].last_interaction,
         chat_id |-> chats[i].chat_id,
         fields |-> ItemFields]]

\* _deserialize_active_chats: the items in file order, each assigned to
\* deserialized_chats[int(key)]; an item whose key is no integer (ValueError)
\* or whose value lacks one of the fields (KeyError; TypeError for a value
\* that is no dict and so has none) is skipped, the others are kept.
RECURSIVE deserialize_active_chats(_)
deserialize_active_chats(data) ==
    IF Len(data) = 0 THEN <<>>
    ELSE LET rest == deserialize_active_chats(SubSeq(data, 1, Len(data) - 1))
             item == data[Len(data)]
             k == StrToInt(item.key)
         IN IF k = None \/ ~(ItemFields \subseteq item.fields) THEN rest
            ELSE DictSet(rest, Entry(k[1], item.messages,
                                     item.last_interaction, item.chat_id))

\* The history file: absent, a JSON object of items, a JSON document whose
\* top level is no object, or bytes json.load rejects.
FileAbsent == [kind |-> "absent", data |-> <<>>]
FileJson(data) == [kind |-> "json", data |-> data]
FileJsonOther == [kind |-> "json_other", data |-> <<>>]
FileGarbage == [kind |-> "garbage", data |-> <<>>]

\* How the write of save_chat_histories can end: done, open() raising
\* IOError before it truncates, or json.dump raising IOError part way.
IoOutcomes == {"ok", "open_fails", "write_fails"}

\* save_chat_histories removing the file of an empty store, the alternative
\* the code names and does not take.
save_removing_file_when_empty(chats, file, io) ==
    IF chats = <<>> THEN [file |-> FileAbsent, value |-> TRUE]
    ELSE IF io = "ok"
         THEN [file |-> FileJson(serialize_active_chats(chats)), value |-> TRUE]
    ELSE IF io = "open_fails" THEN [file |-> file, value |-> FALSE]
    ELSE [file |-> FileGarbage, value |-> FALSE]

\* save_chat_histories: [file, value]; nothing is written for an empty store.
save_chat_histories(chats, file, io) ==
    IF chats = <<>> THEN [file |-> file, value |-> TRUE]
    ELSE IF io = "ok"
         THEN [file |-> FileJson(serialize_active_chats(chats)), value |-> TRUE]
    ELSE IF io = "open_fails" THEN [file |-> file, value |-> FALSE]
    ELSE [file |-> FileGarbage, value |-> FALSE]

\* load_chat_histories without the cleanup after the parse.
load_without_cleanup(file, t) ==
    IF file.kind = "absent" THEN [chats |-> <<>>, value |-> TRUE, log |-> <<>>]
    ELSE IF file.kind \in {"garbage", "json_other"}
         THEN [chats |-> <<>>, value |-> FALSE, log |-> <<>>]
    ELSE [chats |-> deserialize_active_chats(file.data), value |-> TRUE,
          log |-> <<>>]

\* load_chat_histories at time t: [chats, value, log], log the keys the
\* cleanup it runs after a successful parse has removed. A JSONDecodeError,
\* and the AttributeError of data.items() on a top level that is no object,
\* leave the store empty and return False.
\* load_chat_histories taking the time of the load for the last
\* interaction of every thread it reads.
load_chat_histories_as_fresh(file, t) ==
    IF file.kind = "absent" THEN [chats |-> <<>>, value |-> TRUE, log |-> <<>>]
    ELSE IF file.kind \in {"garbage", "json_other"}
         THEN [chats |-> <<>>, value |-> FALSE, log |-> <<>>]
    ELSE LET loaded == deserialize_active_chats(file.data)
         IN [chats |-> [i \in DOMAIN loaded |->
                          [loaded[i] EXCEPT !.last_interaction = t]],
             value |-> TRUE, log |-> <<>>]

load_chat_histories(file, t) ==
    IF file.kind = "absent" THEN [chats |-> <<>>, value |-> TRUE, log |-> <<>>]
    ELSE IF file.kind \in {"garbage", "json_other"}
         THEN [chats |-> <<>>, value |-> FALSE, log |-> <<>>]
    ELSE LET loaded == deserialize_active_chats(file.data)
         IN [chats |-> cleanup_expired_chats(loaded, t), value |-> TRUE,
             log |-> expired_keys(loaded, t)]

\* ------------------------------------------------------ known users ledger
\* _known_users_data: a dict of user id to info, modelled as a sequence of
\* [user_id, description, name, last_updated_by_ai], an absent key of the
\* info dict being None.
UserIds == {1, 2}
Descriptions == {"likes tea", "likes mint"}
Names == {"Sam"}

UserInfo(user_id, description, name, last_updated_by_ai) ==
    [user_id |-> user_id, description |-> description, name |-> name,
     last_updated_by_ai |-> last_updated_by_ai]

UserKeys(users) == {users[i].user_id : i \in DOMAIN users}

UserIndex(users, user_id) == CHOOSE i \in DOMAIN users : users[i].user_id = user_id

\* time.strftime("%Y-%m-%dT%H:%M:%SZ", time.gmtime()) at second t, a text.
TimeStamp(t) == <<"T">> \o IntToStr(t) \o <<"Z">>

\* update_user_in_memory: [users, value]; an unknown id gets an empty info
\* first, each argument that is not None is assigned, and any assignment
\* stamps last_updated_by_ai and makes the result True.
update_user_in_memory(users, user_id, description, name, t) ==
    LET known == IF user_id \in UserKeys(users) THEN users
                 ELSE Append(users, UserInfo(user_id, None, None, None))
        i == UserIndex(known, user_id)
        updated == description # None \/ name # None
    IN [users |-> [known EXCEPT
                     ![i].description = IF description # None THEN description ELSE @,
                     ![i].name = IF name # None THEN name ELSE @,
                     ![i].last_updated_by_ai =
                         IF updated THEN Some(TimeStamp(t)) ELSE @],
        value |-> updated]

\* yaml.dump(..., sort_keys=True): the users in the order of their ids.
RECURSIVE SortedByUserId(_)
SortedByUserId(users) ==
    IF Len(users) = 0 THEN <<>>
    ELSE LET least == CHOOSE i \in DOMAIN users :
                         \A j \in DOMAIN users : users[i].user_id <= users[j].user_id
         IN <<users[least]>>
            \o SortedByUserId(SelectSeq(users,
                                        LAMBDA u : u.user_id # users[least].user_id))

\* The known users file: absent, a YAML mapping, or bytes yaml rejects.
UsersFileAbsent == [kind |-> "absent", data |-> <<>>]
UsersFileYaml(data) == [kind |-> "yaml", data |-> data]
UsersFileGarbage == [kind |-> "garbage", data |-> <<>>]

\* save_known_users: [file, value]; open(..., 'w') truncates before yaml.dump.
save_known_users(users, users_file, io) ==
    IF io = "ok"
    THEN [file |-> UsersFileYaml(SortedByUserId(users)), value |-> TRUE]
    ELSE IF io = "open_fails" THEN [file |-> users_file, value |-> FALSE]
    ELSE [file |-> UsersFileGarbage, value |-> FALSE]

\* load_known_users: an absent or unparsable file gives no users.
load_known_users(users_file) ==
    IF users_file.kind = "yaml" THEN users_file.data ELSE <<>>

\* ------------------------------------------------------------ console thread
\* main.py starts console_interface in a thread of its own when
\* config.enable_console_interface is set. Its 'state' command iterates
\* chat_manager.active_chats: size is the length the dict had when the
\* iterator was made, i the items it has yielded.
ConsoleOff == [pc |-> "off", size |-> 0, i |-> 0]
ConsolePrompt == [pc |-> "prompt", size |-> 0, i |-> 0]
ConsoleScan(size, i) == [pc |-> "scan", size |-> size, i |-> i]

\* ------------------------------------------------------------------ state
VARIABLES
    active_chats,          \* chat_manager.active_chats, in dict order
    system_prompt_tokens,  \* chat_manager.system_prompt_tokens
    now,                   \* time.time()
    file,                  \* the file at history_file_path
    next_id,               \* per chat, the id Telegram gives the next message
    pc,                    \* where the process is: idle, in a handler, stopped
    req,                   \* the locals of the handler in flight
    ret,                   \* the ChatManager call of the last step, its result
    last_save,             \* what the save at shutdown returned
    expired,               \* the threads expiry removed in this process
    console,               \* main.py's console thread: off, or where it is
    known_users,           \* config_loader._known_users_data, in dict order
    known_users_file,      \* the file at _known_users_file_path
    allowed_chat_ids       \* config.allowed_chat_ids

vars == <<active_chats, system_prompt_tokens, now, file, next_id, pc, req,
          ret, last_save, expired, console, known_users, known_users_file,
          allowed_chat_ids>>

\* The locals of a get_ai_response call: where it is (not begun, awaiting
\* the first or the second completion, returned), the completion requests it
\* has made (whether tools were passed, and the roles of api_messages), the
\* number of tool calls the first response asked for, the calls of
\* update_user_in_memory made, the tool calls of the second response, and
\* the str returned.
NoApi == [pc |-> "none", requests |-> <<>>, calls |-> 0, executed |-> 0,
          unanswered |-> 0, text |-> ""]

NoReq == [chat_id |-> 0, user_message_id |-> 0, text |-> "", replied_to |-> 0,
          thread_key |-> 0, reply_to |-> None, history |-> <<>>, api |-> NoApi]

\* The awaits of a handler, where the job queue's callbacks can run.
Awaiting == {"mint_await", "reply_await"}

\* Ids the handler in flight still needs in chat c for the bot's answer.
Reserved(c) == IF pc \in Awaiting /\ req.chat_id = c THEN 1 ELSE 0

\* The threads of chats that cleanup at time t removes, as the ghost keeps them.
Removed(chats, t) ==
    {[key |-> chats[i].key, chat_id |-> chats[i].chat_id,
      ids |-> {chats[i].messages[j].telegram_message_id :
                  j \in DOMAIN chats[i].messages}] :
        i \in {n \in DOMAIN chats : IsExpired(chats[n], t)}}

\* ChatManager.__init__ of the first process: no history file yet.
Init ==
    /\ allowed_chat_ids = Chats
    /\ active_chats = load_chat_histories(FileAbsent, 0).chats
    /\ system_prompt_tokens \in {count_tokens(p) : p \in SystemPrompts}
    /\ now = 0
    /\ file = FileAbsent
    /\ next_id = [c \in Chats |-> 1]
    /\ pc = "idle"
    /\ req = NoReq
    /\ ret = Ret("load_chat_histories", <<>>, Some(TRUE), <<>>)
    /\ last_save = None
    /\ expired = {}
    /\ console = ConsoleOff
    /\ known_users_file = UsersFileAbsent
    /\ known_users = load_known_users(UsersFileAbsent)

\* ------------------------------------------------------------- whitelist
\* restricted_to_allowed_chats taking an empty list for no restriction.
restricted_unless_list_empty(allowed, chat_id) ==
    IF allowed = {} THEN "run"
    ELSE IF chat_id \notin allowed THEN "not_authorized"
    ELSE "run"

\* restricted_to_allowed_chats: what the decorator does with an update of the
\* chat: it answers that the bot is not configured for any chat, or not
\* authorized for this one, and returns, or it runs the handler.
restricted_to_allowed_chats(allowed, chat_id) ==
    IF allowed = {} THEN "not_configured"
    ELSE IF chat_id \notin allowed THEN "not_authorized"
    ELSE "run"

\* is_chat_allowed: False for an empty list.
is_chat_allowed(allowed, chat_id) ==
    IF allowed = {} THEN FALSE ELSE chat_id \in allowed

\* ---------------------------------------------------------------- actions
\* The clock advances while the event loop waits or the process is down.
Tick ==
    /\ UNCHANGED allowed_chat_ids
    /\ pc \in Awaiting \cup {"idle", "stopped"}
    /\ now < MaxTime
    /\ now' = now + 1
    /\ ret' = NoCall
    /\ last_save' = IF pc = "stopped" THEN last_save ELSE None
    /\ UNCHANGED <<console, known_users, known_users_file>>
    /\ UNCHANGED <<active_chats, system_prompt_tokens, file, next_id, pc, req,
                   expired>>

\* A message in chat c that no handler of the bot takes: it uses up an id.
OtherMessage(c) ==
    /\ UNCHANGED allowed_chat_ids
    /\ pc \in Awaiting \cup {"idle"}
    /\ next_id[c] + Reserved(c) <= MaxMsgId
    /\ next_id' = [next_id EXCEPT ![c] = @ + 1]
    /\ ret' = NoCall
    /\ last_save' = None
    /\ UNCHANGED <<console, known_users, known_users_file>>
    /\ UNCHANGED <<active_chats, system_prompt_tokens, now, file, pc, req,
                   expired>>

\* mint_command, under its decorator, up to its await of get_ai_response.
\* The decorator's refusal is a message of the bot in the chat.
MintCommand(c, text) ==
    /\ UNCHANGED allowed_chat_ids
    /\ pc = "idle"
    /\ next_id[c] + 1 <= MaxMsgId
    /\ IF restricted_to_allowed_chats(allowed_chat_ids, c) = "run"
       THEN /\ req' = [NoReq EXCEPT
                         !.chat_id = c, !.user_message_id = next_id[c],
                         !.text = text,
                         !.history = <<[role |-> "user", content |-> text]>>]
            /\ next_id' = [next_id EXCEPT ![c] = @ + 1]
            /\ pc' = "mint_await"
            /\ ret' = NoCall
       ELSE /\ req' = req
            /\ next_id' = [next_id EXCEPT ![c] = @ + 2]
            /\ pc' = pc
            /\ ret' = Ret("restricted_to_allowed_chats", <<c>>, Some(FALSE),
                          <<>>)
    /\ last_save' = None
    /\ UNCHANGED <<console, known_users, known_users_file>>
    /\ UNCHANGED <<active_chats, system_prompt_tokens, now, file, expired>>

\* mint_command from the AI's answer on: the bot replies, and a truthy
\* answer starts the thread.
MintAIResponse(ai) ==
    /\ UNCHANGED allowed_chat_ids
    /\ pc = "mint_await"
    /\ LET bot_id == next_id[req.chat_id]
       IN /\ next_id' = [next_id EXCEPT ![req.chat_id] = @ + 1]
          /\ IF ai # ""
             THEN /\ active_chats' = start_new_chat(active_chats, req.text,
                                        req.user_message_id, req.chat_id,
                                        bot_id, ai, now)
                  /\ ret' = Ret("start_new_chat",
                                <<req.user_message_id, req.chat_id, bot_id>>,
                                None, <<>>)
             ELSE /\ active_chats' = active_chats
                  /\ ret' = NoCall
    /\ pc' = "idle"
    /\ req' = NoReq
    /\ last_save' = None
    /\ UNCHANGED <<console, known_users, known_users_file>>
    /\ UNCHANGED <<system_prompt_tokens, now, file, expired>>

\* handle_reply_to_bot: a text message of chat c replying to message rid,
\* which the handler ignores when the chat is not allowed.
ReplyMessage(c, rid, text) ==
    /\ UNCHANGED allowed_chat_ids
    /\ pc = "idle"
    /\ next_id[c] + 1 <= MaxMsgId
    /\ rid \in 1..(next_id[c] - 1)
    /\ next_id' = [next_id EXCEPT ![c] = @ + 1]
    /\ IF is_chat_allowed(allowed_chat_ids, c)
       THEN /\ req' = [NoReq EXCEPT
                         !.chat_id = c, !.user_message_id = next_id[c],
                         !.text = text, !.replied_to = rid]
            /\ pc' = "reply_find"
            /\ ret' = NoCall
       ELSE /\ req' = req
            /\ pc' = pc
            /\ ret' = Ret("is_chat_allowed", <<c>>, Some(FALSE), <<>>)
    /\ last_save' = None
    /\ UNCHANGED <<console, known_users, known_users_file>>
    /\ UNCHANGED <<active_chats, system_prompt_tokens, now, file, expired>>

\* handle_reply_to_bot answering a reply it cannot match with a message of
\* its own instead of returning.
ReplyFindAnswering ==
    /\ UNCHANGED allowed_chat_ids
    /\ pc = "reply_find"
    /\ LET r == find_thread_key_for_reply(active_chats, req.replied_to, req.chat_id)
       IN /\ ret' = Ret("find_thread_key_for_reply",
                        <<req.replied_to, req.chat_id>>, r, <<>>)
          /\ IF r = None
             THEN /\ pc' = "idle" /\ req' = NoReq
                  /\ next_id' = [next_id EXCEPT ![req.chat_id] = @ + 1]
             ELSE /\ pc' = "reply_getmsg"
                  /\ req' = [req EXCEPT !.thread_key = r[1]]
                  /\ next_id' = next_id
    /\ last_save' = None
    /\ UNCHANGED <<console, known_users, known_users_file>>
    /\ UNCHANGED <<active_chats, system_prompt_tokens, now, file, expired>>

\* handle_reply_to_bot: _find_thread_key_for_reply; the handler returns on None.
ReplyFind ==
    /\ UNCHANGED allowed_chat_ids
    /\ pc = "reply_find"
    /\ LET r == find_thread_key_for_reply(active_chats, req.replied_to, req.chat_id)
       IN /\ ret' = Ret("find_thread_key_for_reply",
                        <<req.replied_to, req.chat_id>>, r, <<>>)
          /\ IF r = None
             THEN pc' = "idle" /\ req' = NoReq
             ELSE pc' = "reply_getmsg" /\ req' = [req EXCEPT !.thread_key = r[1]]
    /\ last_save' = None
    /\ UNCHANGED <<console, known_users, known_users_file>>
    /\ UNCHANGED <<active_chats, system_prompt_tokens, now, file, next_id,
                   expired>>

\* handle_reply_to_bot: get_message_by_telegram_id of the replied-to message.
ReplyGetMessage ==
    /\ UNCHANGED allowed_chat_ids
    /\ pc = "reply_getmsg"
    /\ LET m == get_message_by_telegram_id(active_chats, req.thread_key,
                                           req.replied_to)
       IN /\ ret' = Ret("get_message_by_telegram_id",
                        <<req.thread_key, req.replied_to>>, m, <<>>)
          /\ req' = [req EXCEPT !.reply_to = m]
    /\ pc' = "reply_add"
    /\ last_save' = None
    /\ UNCHANGED <<console, known_users, known_users_file>>
    /\ UNCHANGED <<active_chats, system_prompt_tokens, now, file, next_id,
                   expired>>

\* handle_reply_to_bot: add_message_to_chat of the user's reply.
ReplyAddUser ==
    /\ UNCHANGED allowed_chat_ids
    /\ pc = "reply_add"
    /\ LET r == add_message_to_chat(active_chats, req.thread_key, "user",
                                    req.text, req.user_message_id, now)
       IN /\ active_chats' = r.chats
          /\ ret' = Ret("add_message_to_chat",
                        <<req.thread_key, "user", req.text, req.user_message_id>>,
                        Some(r.value), <<>>)
    /\ pc' = "reply_history"
    /\ last_save' = None
    /\ UNCHANGED <<console, known_users, known_users_file>>
    /\ UNCHANGED <<system_prompt_tokens, now, file, next_id, req, expired>>

\* handle_reply_to_bot: get_history_for_ai; the handler returns on a falsy
\* result (None or an empty list), else awaits get_ai_response.
ReplyGetHistory ==
    /\ UNCHANGED allowed_chat_ids
    /\ pc = "reply_history"
    /\ LET h == get_history_for_ai(active_chats, req.thread_key,
                                   system_prompt_tokens)
       IN /\ ret' = Ret("get_history_for_ai", <<req.thread_key>>, h, <<>>)
          /\ IF h = None \/ h = Some(<<>>)
             THEN pc' = "idle" /\ req' = NoReq
             ELSE pc' = "reply_await" /\ req' = [req EXCEPT !.history = h[1]]
    /\ active_chats' = store_after_get_history(active_chats, req.thread_key,
                                               system_prompt_tokens)
    /\ last_save' = None
    /\ UNCHANGED <<console, known_users, known_users_file>>
    /\ UNCHANGED <<system_prompt_tokens, now, file, next_id, expired>>

\* handle_reply_to_bot from the AI's answer on: the bot replies, and a
\* truthy answer is added to the thread.
ReplyAIResponse(ai) ==
    /\ UNCHANGED allowed_chat_ids
    /\ pc = "reply_await"
    /\ LET bot_id == next_id[req.chat_id]
           r == add_message_to_chat(active_chats, req.thread_key, "assistant",
                                    ai, bot_id, now)
       IN /\ next_id' = [next_id EXCEPT ![req.chat_id] = @ + 1]
          /\ IF ai # ""
             THEN /\ active_chats' = r.chats
                  /\ ret' = Ret("add_message_to_chat",
                                <<req.thread_key, "assistant", ai, bot_id>>,
                                Some(r.value), <<>>)
             ELSE /\ active_chats' = active_chats
                  /\ ret' = NoCall
    /\ pc' = "idle"
    /\ req' = NoReq
    /\ last_save' = None
    /\ UNCHANGED <<console, known_users, known_users_file>>
    /\ UNCHANGED <<system_prompt_tokens, now, file, expired>>

\* cleanup_job_callback: the job queue runs it between handlers and at a
\* handler's awaits.
CleanupJob ==
    /\ UNCHANGED allowed_chat_ids
    /\ pc \in Awaiting \cup {"idle"}
    /\ active_chats' = cleanup_expired_chats(active_chats, now)
    /\ ret' = Ret("cleanup_expired_chats", <<>>, None,
                  expired_keys(active_chats, now))
    /\ expired' = expired \cup Removed(active_chats, now)
    /\ last_save' = None
    /\ UNCHANGED <<console, known_users, known_users_file>>
    /\ UNCHANGED <<system_prompt_tokens, now, file, next_id, pc, req>>

\* run_bot's finally: polling has stopped, save_chat_histories, exit.
Shutdown(io) ==
    /\ UNCHANGED allowed_chat_ids
    /\ pc = "idle"
    /\ LET r == save_chat_histories(active_chats, file, io)
       IN /\ file' = r.file
          /\ last_save' = Some(r.value)
          /\ ret' = Ret("save_chat_histories", <<>>, Some(r.value), <<>>)
    /\ pc' = "stopped"
    /\ console' = IF console = ConsoleOff THEN ConsoleOff ELSE ConsolePrompt
    /\ UNCHANGED <<active_chats, system_prompt_tokens, now, next_id, req, expired>>
    /\ UNCHANGED <<known_users, known_users_file>>

\* The next process: importing config_loader calls load_known_users, and
\* ChatManager.__init__ calls load_chat_histories.
Restart ==
    /\ UNCHANGED allowed_chat_ids
    /\ pc = "stopped"
    /\ LET r == load_chat_histories(file, now)
       IN /\ active_chats' = r.chats
          /\ ret' = Ret("load_chat_histories", <<>>, Some(r.value), r.log)
    /\ pc' = "idle"
    /\ expired' = {}
    /\ known_users' = load_known_users(known_users_file)
    /\ UNCHANGED <<system_prompt_tokens, now, file, next_id, req, last_save>>
    /\ UNCHANGED <<console, known_users_file>>

Next ==
    \/ Tick
    \/ \E c \in Chats : OtherMessage(c)
    \/ \E c \in Chats, text \in UserTexts : MintCommand(c, text)
    \/ \E ai \in AiTexts : MintAIResponse(ai)
    \/ \E c \in Chats, rid \in 1..MaxMsgId, text \in UserTexts :
          ReplyMessage(c, rid, text)
    \/ ReplyFind
    \/ ReplyGetMessage
    \/ ReplyAddUser
    \/ ReplyGetHistory
    \/ \E ai \in AiTexts : ReplyAIResponse(ai)
    \/ CleanupJob
    \/ \E io \in IoOutcomes : Shutdown(io)
    \/ Restart

Spec == Init /\ [][Next]_vars

\* ------------------------------------------------- loading a file as found
\* A process starting on whatever file is at history_file_path: items with a
\* key that is an integer or not, with all the fields or without "messages".
FileItemKeys == {<<"1">>, <<"2">>, <<"x">>}

FileItem(key, t, fields) ==
    LET id == IF StrToInt(key) = None THEN 3 ELSE StrToInt(key)[1]
    IN [key |-> key,
        messages |-> <<Message("user", "hi", id), Message("assistant", "ok", id + 1)>>,
        last_interaction |-> t, chat_id |-> IF id = 2 THEN 2 ELSE 1,
        fields |-> fields]

FileItems ==
    {FileItem(key, t, fields) :
        key \in FileItemKeys, t \in 0..1,
        fields \in {ItemFields, ItemFields \ {"messages"}}}

\* A JSON object has each key once.
HistoryFiles ==
    {FileAbsent, FileGarbage, FileJsonOther, FileJson(<<>>)}
      \cup {FileJson(<<a>>) : a \in FileItems}
      \cup UNION {{FileJson(<<a, b>>) : b \in {x \in FileItems : x.key # a.key}} :
                     a \in FileItems}

LoadInit ==
    /\ allowed_chat_ids = Chats
    /\ file \in HistoryFiles
    /\ now \in 0..MaxTime
    /\ pc = "stopped"
    /\ active_chats = <<>>
    /\ system_prompt_tokens \in {count_tokens(p) : p \in SystemPrompts}
    /\ next_id = [c \in Chats |-> MaxMsgId + 1]
    /\ req = NoReq
    /\ ret = NoCall
    /\ last_save = None
    /\ expired = {}
    /\ console = ConsoleOff
    /\ known_users_file = UsersFileAbsent
    /\ known_users = <<>>

LoadNext ==
    \/ Tick
    \/ Restart
    \/ CleanupJob
    \/ \E io \in IoOutcomes : Shutdown(io)

LoadSpec == LoadInit /\ [][LoadNext]_vars

\* ------------------------------------------------- with the console enabled
\* console_print_state, the 'state' command: get_all_active_chats_summary
\* returns at once for an empty store, else starts to iterate the dict.
ConsoleState ==
    /\ UNCHANGED allowed_chat_ids
    /\ console.pc = "prompt"
    /\ pc # "stopped"
    /\ console' = IF active_chats = <<>> THEN ConsolePrompt
                  ELSE ConsoleScan(Len(active_chats), 0)
    /\ ret' = Ret("get_all_active_chats_summary", <<>>, None, <<>>)
    /\ last_save' = None
    /\ UNCHANGED <<active_chats, system_prompt_tokens, now, file, next_id, pc,
                   req, expired, known_users, known_users_file>>

\* One round of the loop of get_all_active_chats_summary, in the console
\* thread: the iterator raises RuntimeError when the dict has changed size
\* (console_print_state catches it), else yields the next item or ends.
ConsoleScanNext ==
    /\ UNCHANGED allowed_chat_ids
    /\ console.pc = "scan"
    /\ pc # "stopped"
    /\ IF Len(active_chats) # console.size
       THEN /\ console' = ConsolePrompt
            /\ ret' = Ret("get_all_active_chats_summary", <<>>, None,
                          <<"RuntimeError">>)
       ELSE IF console.i < console.size
       THEN /\ console' = ConsoleScan(console.size, console.i + 1)
            /\ ret' = Ret("get_all_active_chats_summary",
                          <<active_chats[console.i + 1].key>>, None, <<>>)
       ELSE /\ console' = ConsolePrompt
            /\ ret' = Ret("get_all_active_chats_summary", <<>>, None, <<>>)
    /\ last_save' = None
    /\ UNCHANGED <<active_chats, system_prompt_tokens, now, file, next_id, pc,
                   req, expired, known_users, known_users_file>>

\* exit_application, the 'quit' command and EOF on the console: stop_running
\* and then os._exit(0) in the console thread, whatever the event loop is at.
\* (When run_bot's finally gets to run first, the step is Shutdown.)
ExitApplication ==
    /\ UNCHANGED allowed_chat_ids
    /\ console.pc = "prompt"
    /\ pc # "stopped"
    /\ pc' = "stopped"
    /\ req' = NoReq
    /\ ret' = Ret("exit_application", <<>>, None, <<>>)
    /\ last_save' = None
    /\ UNCHANGED <<active_chats, system_prompt_tokens, now, file, next_id,
                   expired, console, known_users, known_users_file>>

ConsoleInit ==
    /\ allowed_chat_ids = Chats
    /\ active_chats = load_chat_histories(FileAbsent, 0).chats
    /\ system_prompt_tokens \in {count_tokens(p) : p \in SystemPrompts}
    /\ now = 0
    /\ file = FileAbsent
    /\ next_id = [c \in Chats |-> 1]
    /\ pc = "idle"
    /\ req = NoReq
    /\ ret = Ret("load_chat_histories", <<>>, Some(TRUE), <<>>)
    /\ last_save = None
    /\ expired = {}
    /\ console = ConsolePrompt
    /\ known_users_file = UsersFileAbsent
    /\ known_users = load_known_users(UsersFileAbsent)

ConsoleNext ==
    \/ Next
    \/ ConsoleState
    \/ ConsoleScanNext
    \/ ExitApplication

ConsoleSpec == ConsoleInit /\ [][ConsoleNext]_vars

\* ------------------------------------------- with the completion's outcomes
\* What the completion collaborator does with a request: the client is not
\* configured, the call raises (an API error, a timeout), or it answers with
\* a message of some content and no tool call.
AiContents == {"", " ", " ok "}

AiFailures ==
    {[kind |-> "not_configured", content |-> ""],
     [kind |-> "raises", content |-> ""]}

AiOutcomes ==
    AiFailures \cup {[kind |-> "content", content |-> c] : c \in AiContents}

\* str.strip() on the contents of the model.
Strip(text) ==
    CASE text = " " -> ""
      [] text = " ok " -> "ok"
      [] OTHER -> text

\* get_ai_response: the str it returns for each outcome.
get_ai_response(outcome) ==
    IF outcome.kind = "not_configured"
    THEN "Error: AI backend client not configured."
    ELSE IF outcome.kind = "raises"
    THEN "Error: An unexpected error occurred while contacting AI."
    ELSE IF outcome.content # "" THEN Strip(outcome.content)
    ELSE "AI returned an empty response."

\* mint_command and handle_reply_to_bot resumed with what get_ai_response
\* returns for an outcome.
MintAIOutcome(outcome) == MintAIResponse(get_ai_response(outcome))

ReplyAIOutcome(outcome) == ReplyAIResponse(get_ai_response(outcome))

AiNext ==
    \/ Tick
    \/ \E c \in Chats : OtherMessage(c)
    \/ \E c \in Chats, text \in UserTexts : MintCommand(c, text)
    \/ \E outcome \in AiOutcomes : MintAIOutcome(outcome)
    \/ \E c \in Chats, rid \in 1..MaxMsgId, text \in UserTexts :
          ReplyMessage(c, rid, text)
    \/ ReplyFind
    \/ ReplyGetMessage
    \/ ReplyAddUser
    \/ ReplyGetHistory
    \/ \E outcome \in AiOutcomes : ReplyAIOutcome(outcome)
    \/ CleanupJob
    \/ \E io \in IoOutcomes : Shutdown(io)
    \/ Restart

AiSpec == Init /\ [][AiNext]_vars

\* ------------------------------------------------ with the AI's tool calls
\* The ledger while a /mint handler awaits get_ai_response and the completion
\* asks for tool calls.
\* get_ai_response handling one update_user_profile tool call while a
\* handler awaits it: without a description it raises ValueError and calls
\* nothing; else update_user_in_memory, and save_known_users when that
\* returned True.
UpdateUserProfile(user_id, description, name, io) ==
    /\ UNCHANGED allowed_chat_ids
    /\ pc \in Awaiting
    /\ IF description = None
       THEN /\ ret' = Ret("update_user_profile", <<user_id, description, name>>,
                          None, <<"ValueError">>)
            /\ UNCHANGED <<known_users, known_users_file>>
       ELSE LET r == update_user_in_memory(known_users, user_id, description,
                                           name, now)
            IN /\ known_users' = r.users
               /\ known_users_file' =
                     IF r.value
                     THEN save_known_users(r.users, known_users_file, io).file
                     ELSE known_users_file
               /\ ret' = Ret("update_user_in_memory",
                             <<user_id, description, name>>, Some(r.value), <<>>)
    /\ last_save' = None
    /\ UNCHANGED <<active_chats, system_prompt_tokens, now, file, next_id, pc,
                   req, expired, console>>

LedgerNext ==
    \/ Tick
    \/ \E c \in Chats, text \in UserTexts : MintCommand(c, text)
    \/ \E user_id \in UserIds,
          description \in {None} \cup {Some(d) : d \in Descriptions},
          name \in {None} \cup {Some(n) : n \in Names},
          io \in IoOutcomes :
          UpdateUserProfile(user_id, description, name, io)

LedgerSpec == Init /\ [][LedgerNext]_vars

\* --------------------------------------------- any list of allowed chats
\* The process started with any allowed_chat_ids that config.yaml can give:
\* none, some or all of the chats the bot gets updates from.
AllowInit ==
    /\ allowed_chat_ids \in SUBSET Chats
    /\ active_chats = load_chat_histories(FileAbsent, 0).chats
    /\ system_prompt_tokens \in {count_tokens(p) : p \in SystemPrompts}
    /\ now = 0
    /\ file = FileAbsent
    /\ next_id = [c \in Chats |-> 1]
    /\ pc = "idle"
    /\ req = NoReq
    /\ ret = Ret("load_chat_histories", <<>>, Some(TRUE), <<>>)
    /\ last_save = None
    /\ expired = {}
    /\ console = ConsoleOff
    /\ known_users_file = UsersFileAbsent
    /\ known_users = load_known_users(UsersFileAbsent)

AllowSpec == AllowInit /\ [][Next]_vars

\* ------------------------------------------------- runs after each other
\* The next process, as Restart, with the record of the threads the cleanup
\* job has removed kept over the runs.
Startup ==
    /\ UNCHANGED allowed_chat_ids
    /\ pc = "stopped"
    /\ LET r == load_chat_histories(file, now)
       IN /\ active_chats' = r.chats
          /\ ret' = Ret("load_chat_histories", <<>>, Some(r.value), r.log)
    /\ pc' = "idle"
    /\ known_users' = load_known_users(known_users_file)
    /\ UNCHANGED <<system_prompt_tokens, now, file, next_id, req, last_save,
                   expired>>
    /\ UNCHANGED <<console, known_users_file>>

CycleNext ==
    \/ Tick
    \/ \E c \in Chats, text \in UserTexts : MintCommand(c, text)
    \/ \E ai \in AiTexts : MintAIResponse(ai)
    \/ \E c \in Chats, rid \in 1..MaxMsgId, text \in UserTexts :
          ReplyMessage(c, rid, text)
    \/ ReplyFind
    \/ ReplyGetMessage
    \/ ReplyAddUser
    \/ ReplyGetHistory
    \/ \E ai \in AiTexts : ReplyAIResponse(ai)
    \/ CleanupJob
    \/ \E io \in IoOutcomes : Shutdown(io)
    \/ Startup

CycleSpec == Init /\ [][CycleNext]_vars

\* ------------------------------------------ the ledger's functions, called
\* update_user_in_memory called with any arguments its signature takes:
\* description and name both default to None. It does not save.
UpdateUserInMemory(user_id, description, name) ==
    /\ UNCHANGED allowed_chat_ids
    /\ pc = "idle"
    /\ LET r == update_user_in_memory(known_users, user_id, description, name,
                                      now)
       IN /\ known_users' = r.users
          /\ ret' = Ret("update_user_in_memory",
                        <<user_id, description, name>>, Some(r.value), <<>>)
    /\ last_save' = None
    /\ UNCHANGED <<active_chats, system_prompt_tokens, now, file, next_id, pc,
                   req, expired, console, known_users_file>>

\* save_known_users called on the ledger as it is.
SaveKnownUsers(io) ==
    /\ UNCHANGED allowed_chat_ids
    /\ pc = "idle"
    /\ LET r == save_known_users(known_users, known_users_file, io)
       IN /\ known_users_file' = r.file
          /\ ret' = Ret("save_known_users", <<>>, Some(r.value), <<>>)
    /\ last_save' = None
    /\ UNCHANGED <<active_chats, system_prompt_tokens, now, file, next_id, pc,
                   req, expired, console, known_users>>

UpsertNext ==
    \/ Tick
    \/ \E user_id \in UserIds,
          description \in {None} \cup {Some(d) : d \in Descriptions},
          name \in {None} \cup {Some(n) : n \in Names} :
          UpdateUserInMemory(user_id, description, name)
    \/ \E io \in IoOutcomes : SaveKnownUsers(io)

UpsertSpec == Init /\ [][UpsertNext]_vars

\* ------------------------------------------- get_ai_response, step by step
\* get_ai_response with a client configured, from one completion request to
\* the next, called by /mint.
MaxToolCalls == 2

\* The tool calls a response can hold: an update_user_profile with its
\* required arguments, one without a description, a function not on offer.
ToolCallInputs ==
    {[name |-> "update_user_profile", user_id |-> 1, description |-> Some("likes tea")],
     [name |-> "update_user_profile", user_id |-> 1, description |-> None],
     [name |-> "forget_user", user_id |-> 1, description |-> None]}

ToolCallLists ==
    UNION {[1..n -> ToolCallInputs] : n \in 0..MaxToolCalls}

\* What a completion request can come to: an exception, or a message with a
\* content (null, or a text) and tool calls.
Completions ==
    {[kind |-> "raises", content |-> None, tool_calls |-> <<>>]}
      \cup {[kind |-> "message", content |-> c, tool_calls |-> t] :
              c \in {None, Some(""), Some(" ok ")}, t \in ToolCallLists}

\* The body of the loop over the tool calls of the first response, on
\* [users, users_file, messages, executed]: an unknown function and a
\* missing argument append an error message for the tool and call nothing;
\* else update_user_in_memory, save_known_users when it returned True, and
\* the message of the tool's result.
tool_call(st, call, io, t) ==
    IF call.name # "update_user_profile" \/ call.description = None
    THEN [st EXCEPT !.messages = Append(@, "tool")]
    ELSE LET r == update_user_in_memory(st.users, call.user_id,
                                        call.description, None, t)
         IN [users |-> r.users,
             users_file |-> IF r.value
                            THEN save_known_users(r.users, st.users_file, io).file
                            ELSE st.users_file,
             messages |-> Append(st.messages, "tool"),
             executed |-> st.executed + 1]

RECURSIVE tool_calls_loop(_, _, _, _)
tool_calls_loop(st, calls, io, t) ==
    IF calls = <<>> THEN st
    ELSE tool_calls_loop(tool_call(st, Head(calls), io, t), Tail(calls), io, t)

\* get_ai_response after the loop, offering the tools once more and taking
\* the answer as it took the first.
after_tool_calls_with_tools(api, st, content) ==
    IF content = None \/ content = Some("")
    THEN [api EXCEPT !.pc = "first", !.executed = st.executed,
                     !.requests = Append(@, [tools |-> TRUE,
                                             messages |-> st.messages])]
    ELSE [api EXCEPT !.pc = "done", !.executed = st.executed,
                     !.text = Strip(content[1])]

\* get_ai_response after the loop: a first response without content makes
\* the second request, of api_messages with the tools' messages and without
\* tools; with content, that content is returned.
after_tool_calls(api, st, content) ==
    IF content = None \/ content = Some("")
    THEN [api EXCEPT !.pc = "second", !.executed = st.executed,
                     !.requests = Append(@, [tools |-> FALSE,
                                             messages |-> st.messages])]
    ELSE [api EXCEPT !.pc = "done", !.executed = st.executed,
                     !.text = Strip(content[1])]

\* get_ai_response up to its first await: api_messages is the system prompt
\* and the history; the request passes the tools.
AiFirstRequest ==
    /\ UNCHANGED allowed_chat_ids
    /\ pc \in Awaiting
    /\ req.api.pc = "none"
    /\ req' = [req EXCEPT !.api =
                 [NoApi EXCEPT !.pc = "first",
                               !.requests =
                                  <<[tools |-> TRUE,
                                     messages |-> <<"system">>
                                        \o [i \in DOMAIN req.history |->
                                               req.history[i].role]]>>]]
    /\ ret' = NoCall
    /\ last_save' = None
    /\ UNCHANGED <<active_chats, system_prompt_tokens, now, file, next_id, pc,
                   expired, console, known_users, known_users_file>>

\* get_ai_response from the first completion to its return or its second
\* await.
AiFirstResponse(completion, io) ==
    /\ UNCHANGED allowed_chat_ids
    /\ pc \in Awaiting
    /\ req.api.pc = "first"
    /\ IF completion.kind = "raises"
       THEN /\ req' = [req EXCEPT !.api.pc = "done",
                         !.api.text = "Error: An unexpected error occurred while contacting AI."]
            /\ UNCHANGED <<known_users, known_users_file>>
       ELSE IF completion.tool_calls = <<>>
       THEN /\ req' = [req EXCEPT !.api.pc = "done",
                         !.api.text =
                            IF completion.content \in {None, Some("")}
                            THEN "AI returned an empty response."
                            ELSE Strip(completion.content[1])]
            /\ UNCHANGED <<known_users, known_users_file>>
       ELSE LET last == req.api.requests[Len(req.api.requests)]
                st == tool_calls_loop(
                         [users |-> known_users, users_file |-> known_users_file,
                          messages |-> Append(last.messages, "assistant"),
                          executed |-> req.api.executed],
                         completion.tool_calls, io, now)
            IN /\ req' = [req EXCEPT !.api =
                            after_tool_calls(
                               [req.api EXCEPT !.calls = Len(completion.tool_calls)],
                               st, completion.content)]
               /\ known_users' = st.users
               /\ known_users_file' = st.users_file
    /\ ret' = NoCall
    /\ last_save' = None
    /\ UNCHANGED <<active_chats, system_prompt_tokens, now, file, next_id, pc,
                   expired, console>>

\* get_ai_response from the second completion to its return: the content is
\* stripped, and None.strip() raises into the except; tool calls of this
\* response are not looked at.
AiSecondResponse(completion) ==
    /\ UNCHANGED allowed_chat_ids
    /\ pc \in Awaiting
    /\ req.api.pc = "second"
    /\ req' = [req EXCEPT !.api.pc = "done",
                 !.api.unanswered = Len(completion.tool_calls),
                 !.api.text =
                    IF completion.kind = "raises" \/ completion.content = None
                    THEN "Error: An unexpected error occurred while contacting AI."
                    ELSE Strip(completion.content[1])]
    /\ ret' = NoCall
    /\ last_save' = None
    /\ UNCHANGED <<active_chats, system_prompt_tokens, now, file, next_id, pc,
                   expired, console, known_users, known_users_file>>

\* mint_command resumed with what the call returned.
MintAIReturn ==
    /\ req.api.pc = "done"
    /\ MintAIResponse(req.api.text)

ToolNext ==
    \/ Tick
    \/ \E c \in Chats, text \in UserTexts : MintCommand(c, text)
    \/ AiFirstRequest
    \/ \E completion \in Completions, io \in IoOutcomes :
          AiFirstResponse(completion, io)
    \/ \E completion \in Completions : AiSecondResponse(completion)
    \/ MintAIReturn

ToolSpec == Init /\ [][ToolNext]_vars

\* ------------------------------------------------ with a fair scheduler
\* The event loop runs a handler's synchronous code to its next await, and
\* the job queue runs cleanup_job_callback again and again (run_repeating,
\* first after 60 s, then every 3600 s) while the process runs: a handler
\* step that moves the handler on, and a cleanup that has threads to remove,
\* are not put off for ever.
HandlerStep == ReplyFind \/ ReplyGetMessage \/ ReplyAddUser \/ ReplyGetHistory

LiveSpec ==
    /\ Init
    /\ [][Next]_vars
    /\ WF_pc(HandlerStep)
    /\ WF_active_chats(CleanupJob)

\* ----------------------------------------------------------------- claims
RECURSIVE SumTokens(_)
SumTokens(history) ==
    IF Len(history) = 0 THEN 0
    ELSE count_message_tokens(history[Len(history)])
         + SumTokens(SubSeq(history, 1, Len(history) - 1))

\* The last n messages of a thread, as (role, content) pairs.
SuffixForAi(msgs, n) ==
    [j \in 1..n |-> AiMessageFormat(msgs[Len(msgs) - n + j])]

\* The largest n such that the last n messages fit the budget after
\* reserved tokens; 0 when nothing fits, the reserved tokens included.
LongestFit(msgs, reserved) ==
    SetMax({0} \cup {n \in 1..Len(msgs) :
               reserved + SumTokens(SuffixForAi(msgs, n)) <= ContextWindowTokens})

ReservedValues == 0..(ContextWindowTokens + 1)

\* The calls that write a thread or read its history: every list of turns a
\* thread ever holds is in the store right after one of them made it.
ThreadCalls == {"start_new_chat", "add_message_to_chat", "get_history_for_ai"}

\* C1: start_new_chat on a message id that already keys a thread fails with
\* DuplicateKey and leaves the store, the existing thread included, unchanged.
C1_StartOnUsedKeyFails ==
    [][(ret'.op = "start_new_chat" /\ ret'.args[1] \in Keys(active_chats))
          => (active_chats' = active_chats /\ ret'.value = Some("DuplicateKey"))]_vars

\* C2: for every thread and every reserved-token value, reserved tokens plus
\* the estimates of the turns get_history_for_ai returns stay within the
\* context budget; reserved tokens that alone exceed the budget give an
\* empty result.
C2_ContextWithinBudget ==
    /\ ret.op \in ThreadCalls =>
       \A k \in Keys(active_chats), r \in ReservedValues :
          LET h == get_history_for_ai(active_chats, k, r)[1]
          IN /\ r <= ContextWindowTokens => r + SumTokens(h) <= ContextWindowTokens
             /\ r > ContextWindowTokens => h = <<>>
    /\ (ret.op = "get_history_for_ai" /\ ret.value # None)
          => IF system_prompt_tokens <= ContextWindowTokens
             THEN system_prompt_tokens + SumTokens(ret.value[1]) <= ContextWindowTokens
             ELSE ret.value[1] = <<>>

\* C2 witness: a call has returned a non-empty history shorter than the thread.
C2_Witness ==
    /\ ret.op = "get_history_for_ai"
    /\ ret.value # None
    /\ ret.value[1] # <<>>
    /\ Len(ret.value[1]) < Len(Lookup(active_chats, ret.args[1]).messages)

\* C3: get_history_for_ai returns exactly the longest suffix of the thread
\* that fits the budget, in chronological order.
C3_LongestFittingSuffix ==
    /\ ret.op \in ThreadCalls =>
       \A k \in Keys(active_chats), r \in ReservedValues :
          LET msgs == Lookup(active_chats, k).messages
          IN get_history_for_ai(active_chats, k, r)
               = Some(SuffixForAi(msgs, LongestFit(msgs, r)))
    /\ (ret.op = "get_history_for_ai" /\ ret.value # None)
          => LET msgs == Lookup(active_chats, ret.args[1]).messages
             IN ret.value[1] = SuffixForAi(msgs, LongestFit(msgs, system_prompt_tokens))

\* C3 witness: a call has stopped at a turn that does not fit although the
\* turn before it, taken instead, would have fitted.
C3_Witness ==
    /\ ret.op = "get_history_for_ai"
    /\ ret.value # None
    /\ LET msgs == Lookup(active_chats, ret.args[1]).messages
           n == Len(ret.value[1])
       IN /\ n >= 1
          /\ Len(msgs) >= n + 2
          /\ system_prompt_tokens + SumTokens(ret.value[1])
               + count_message_tokens(AiMessageFormat(msgs[Len(msgs) - n - 1]))
               <= ContextWindowTokens

\* C4: a call of get_history_for_ai leaves every thread of the store as it was.
C4_HistoryIsViewOnly ==
    [][ret'.op = "get_history_for_ai" => active_chats' = active_chats]_vars

\* C4 witness: a call has returned fewer turns than the thread stores.
C4_Witness ==
    /\ ret.op = "get_history_for_ai"
    /\ ret.value # None
    /\ Len(ret.value[1]) < Len(Lookup(active_chats, ret.args[1]).messages)
    /\ Len(Lookup(active_chats, ret.args[1]).messages) >= 3

\* C5: cleanup_expired_chats removes exactly the threads whose
\* last_interaction is below now - expiry and leaves the others, the one at
\* the boundary included, as they were.
C5_ExpiryRemovesExactlyStale ==
    [][ret'.op = "cleanup_expired_chats"
          => active_chats' =
                SelectSeq(active_chats,
                          LAMBDA e : e.last_interaction >= now' - ChatHistoryExpirySeconds)]_vars

\* C5 witness: a cleanup has removed a thread and kept one at the boundary.
C5_Witness ==
    /\ ret.op = "cleanup_expired_chats"
    /\ ret.log # <<>>
    /\ \E i \in DOMAIN active_chats :
          active_chats[i].last_interaction = now - ChatHistoryExpirySeconds

\* C6 as stated: a successful save followed by load gives back the store
\* that was saved, whatever the age of its threads.
C6_RoundTripIsIdentity ==
    [][(pc = "stopped" /\ last_save = Some(TRUE)
          /\ ret'.op = "load_chat_histories")
          => active_chats' = active_chats]_vars

\* C6: a successful save followed by load gives back the saved store without
\* the threads that are stale when it is loaded, the others in the same
\* order and with the same turns, last_interaction and chat_id.
C6_RoundTripDropsStale ==
    [][(pc = "stopped" /\ last_save = Some(TRUE)
          /\ ret'.op = "load_chat_histories")
          => active_chats' =
                SelectSeq(active_chats,
                          LAMBDA e : now' - e.last_interaction
                                        <= ChatHistoryExpirySeconds)]_vars

\* C6 witness: a load after a successful save has dropped a stale thread and
\* restored another.
C6_Witness ==
    /\ ret.op = "load_chat_histories"
    /\ last_save = Some(TRUE)
    /\ ret.log # <<>>
    /\ active_chats # <<>>

\* C7: add_message_to_chat on a key that is not in the store returns False
\* and leaves the store unchanged.
C7_AppendToUnknownKeyFails ==
    [][(ret'.op = "add_message_to_chat" /\ ret'.args[1] \notin Keys(active_chats))
          => (ret'.value = Some(FALSE) /\ active_chats' = active_chats)]_vars

\* C7 witness: the bot's answer was to be added under a key that is no longer
\* in the store, and the call has returned False.
C7_Witness ==
    /\ ret.op = "add_message_to_chat"
    /\ ret.args[2] = "assistant"
    /\ ret.args[1] \notin Keys(active_chats)
    /\ ret.value = Some(FALSE)

\* C8: _find_thread_key_for_reply(id, chat) only ever returns a thread of
\* that chat holding the id, and None when no thread of that chat holds it.
C8_FindStaysInChat ==
    /\ \A c \in Chats, id \in 1..MaxMsgId :
          LET r == find_thread_key_for_reply(active_chats, id, c)
          IN /\ r # None =>
                  /\ r[1] \in Keys(active_chats)
                  /\ Lookup(active_chats, r[1]).chat_id = c
                  /\ HasMessage(Lookup(active_chats, r[1]), id)
             /\ r = None =>
                  ~\E i \in DOMAIN active_chats :
                      active_chats[i].chat_id = c /\ HasMessage(active_chats[i], id)
    /\ (ret.op = "find_thread_key_for_reply" /\ ret.value # None)
          => Lookup(active_chats, ret.value[1]).chat_id = ret.args[2]

\* C8 witness: a thread of another chat holding the id comes first in the
\* store, and the call has returned the thread of the chat it was given.
C8_Witness ==
    /\ ret.op = "find_thread_key_for_reply"
    /\ ret.value # None
    /\ \E i \in DOMAIN active_chats :
          /\ active_chats[i].chat_id # ret.args[2]
          /\ HasMessage(active_chats[i], ret.args[1])
          /\ i < IndexOf(active_chats, ret.value[1])

\* C9: right after start_new_chat, a lookup in the same chat by the id of the
\* /mint message and by the id of the bot's first reply both return the new key.
C9_StartedThreadIsFound ==
    ret.op = "start_new_chat"
       => /\ find_thread_key_for_reply(active_chats, ret.args[1], ret.args[2])
               = Some(ret.args[1])
          /\ find_thread_key_for_reply(active_chats, ret.args[3], ret.args[2])
               = Some(ret.args[1])

\* C9 witness: a thread was started with another thread of the same chat and
\* one of another chat already in the store.
C9_Witness ==
    /\ ret.op = "start_new_chat"
    /\ \E i, j \in DOMAIN active_chats :
          /\ active_chats[i].key # ret.args[1]
          /\ active_chats[i].chat_id = ret.args[2]
          /\ active_chats[j].chat_id # ret.args[2]

\* C10 as stated: a key that expiry has removed is absent from the store in
\* every later state of the process.
C10_ExpiredKeyNeverReturns ==
    \A e \in expired : e.key \notin Keys(active_chats)

\* The failures of C10 in one state: for a thread expiry has removed, no
\* lookup by one of its message ids in its chat finds a thread, and while its
\* key is absent get_message_by_telegram_id and get_history_for_ai return None.
ExpiredIsGone ==
    \A e \in expired :
       /\ \A id \in e.ids :
             find_thread_key_for_reply(active_chats, id, e.chat_id) = None
       /\ e.key \notin Keys(active_chats) =>
             /\ \A id \in 1..MaxMsgId :
                   get_message_by_telegram_id(active_chats, e.key, id) = None
             /\ get_history_for_ai(active_chats, e.key, system_prompt_tokens) = None

\* C10: once expiry has removed a thread, its key stays absent, and
\* add_message_to_chat, get_message_by_telegram_id and get_history_for_ai on
\* it fail, until start_new_chat makes a new thread of another chat under the
\* same message id; no lookup in its chat by one of its ids finds it again.
C10_ExpiredOnlyReplacedByStart ==
    /\ []ExpiredIsGone
    /\ [][\A e \in expired :
             e.key \notin Keys(active_chats) =>
                /\ e.key \in Keys(active_chats') =>
                      /\ ret'.op = "start_new_chat"
                      /\ ret'.args[1] = e.key
                      /\ ret'.args[2] # e.chat_id
                /\ (ret'.op = "add_message_to_chat" /\ ret'.args[1] = e.key)
                      => ret'.value = Some(FALSE)]_vars

\* C10 witness: the bot's answer to a reply could not be added because expiry
\* had removed the thread while the AI was awaited.
C10_Witness ==
    /\ ret.op = "add_message_to_chat"
    /\ ret.value = Some(FALSE)
    /\ \E e \in expired : e.key = ret.args[1] /\ e.key \notin Keys(active_chats)

\* C11: every thread of the store holds at least two turns, the first of role
\* user and the second of role assistant, from its creation until it expires.
C11_ThreadsKeepOpeningTurns ==
    \A i \in DOMAIN active_chats :
       /\ Len(active_chats[i].messages) >= 2
       /\ active_chats[i].messages[1].role = "user"
       /\ active_chats[i].messages[2].role = "assistant"

\* C11 witness: a thread that has grown beyond its opening turns has been
\* saved and loaded by the next process.
C11_Witness ==
    /\ ret.op = "load_chat_histories"
    /\ \E i \in DOMAIN active_chats : Len(active_chats[i].messages) >= 3

IsPrefix(a, b) == Len(a) <= Len(b) /\ SubSeq(b, 1, Len(a)) = a

\* C12: in every step of a process (start, append, find, get message, build
\* context, expiry, save), a thread whose key stays in the store keeps the
\* turns it had as a prefix of the turns it has afterwards.
C12_ThreadsAppendOnly ==
    [][ret'.op # "load_chat_histories"
          => \A k \in Keys(active_chats) \cap Keys(active_chats') :
                IsPrefix(Lookup(active_chats, k).messages,
                         Lookup(active_chats', k).messages)]_vars

\* A file load_chat_histories has to reject as a whole: absent, unparsable,
\* of the wrong top-level shape, or with an item of the wrong shape.
FileMalformed(f) ==
    \/ f.kind # "json"
    \/ \E i \in DOMAIN f.data :
          StrToInt(f.data[i].key) = None \/ ~(ItemFields \subseteq f.data[i].fields)

\* C13: load_chat_histories on a file that is absent or malformed (a parse
\* failure, a top level of the wrong shape, an item with a missing field or a
\* key that is no integer) leaves an empty store, never a partially loaded one.
C13_MalformedFileLoadsEmpty ==
    [][(ret'.op = "load_chat_histories" /\ FileMalformed(file))
          => active_chats' = <<>>]_vars

\* C14: whatever way save_chat_histories ends, the file the next load sees
\* gives either what the file before the save gave or what the saved store
\* gives, never less: a failed save costs no thread persisted before.
C14_SaveIsAtomic ==
    [][ret'.op = "save_chat_histories"
          => LET seen == load_chat_histories(file', now').chats
             IN \/ seen = load_chat_histories(file, now').chats
                \/ seen = load_chat_histories(
                             FileJson(serialize_active_chats(active_chats)),
                             now').chats]_vars

\* C15: every step that ends the process (polling stopped by a signal, the
\* console's quit command, EOF on the console) is a save_chat_histories.
C15_EveryExitSaves ==
    [][(pc # "stopped" /\ pc' = "stopped")
          => ret'.op = "save_chat_histories"]_vars

\* C16: while the console's summary iterates the dict, no step inserts a key
\* into it or deletes one from it.
C16_NoMutationDuringScan ==
    [][console.pc = "scan" => Keys(active_chats') = Keys(active_chats)]_vars

\* A store of whole threads: each key once, each thread with the turns its
\* start gave it and ids that rise along its turns.
WholeThreads(chats) ==
    /\ \A i, j \in DOMAIN chats : chats[i].key = chats[j].key => i = j
    /\ \A i \in DOMAIN chats :
          LET msgs == chats[i].messages
          IN /\ Len(msgs) >= 2
             /\ msgs[1].telegram_message_id = chats[i].key
             /\ \A n \in 1..(Len(msgs) - 1) :
                   msgs[n].telegram_message_id < msgs[n + 1].telegram_message_id

\* C17: the cleanup job can run at the await of a /mint or reply handler
\* without harm: the store always holds whole threads; the job removes whole
\* items, leaves the others and the handler's locals as they were; the
\* handler can go on for every answer of the AI, and its next step ends it,
\* an append to a thread the job has removed returning False.
C17_CleanupAtAwaitIsSafe ==
    /\ [](WholeThreads(active_chats)
          /\ (pc = "mint_await" => \A ai \in AiTexts : ENABLED MintAIResponse(ai))
          /\ (pc = "reply_await" => \A ai \in AiTexts : ENABLED ReplyAIResponse(ai)))
    /\ [][(ret'.op = "cleanup_expired_chats" /\ pc \in Awaiting)
             => /\ pc' = pc
                /\ req' = req
                /\ active_chats' =
                      SelectSeq(active_chats,
                                LAMBDA e : e.key \in Keys(active_chats'))]_vars
    /\ [][(pc \in Awaiting /\ pc' # pc)
             => /\ pc' = "idle"
                /\ req' = NoReq
                /\ (pc = "reply_await" /\ req.thread_key \notin Keys(active_chats))
                      => /\ active_chats' = active_chats
                         /\ ret'.op = "add_message_to_chat" => ret'.value = Some(FALSE)]_vars

\* C17 witness: the cleanup job has just removed, at the await of a reply
\* handler, the thread that handler is answering in.
C17_Witness ==
    /\ ret.op = "cleanup_expired_chats"
    /\ pc = "reply_await"
    /\ ret.log # <<>>
    /\ req.thread_key \notin Keys(active_chats)

\* C18: a handler resumed with what get_ai_response returns for a failure of
\* the completion collaborator (no client, an error, a timeout) takes it for
\* a failure: it stores no assistant turn for it.
C18_FailureIsToldApart ==
    [][\A outcome \in AiFailures :
          (\/ pc = "mint_await" /\ MintAIOutcome(outcome)
           \/ pc = "reply_await" /\ ReplyAIOutcome(outcome))
             => /\ ret'.op \notin {"start_new_chat", "add_message_to_chat"}
                /\ active_chats' = active_chats]_vars

\* C19: update_user_in_memory with a description and a name that the user's
\* entry already has (a name not given changing nothing) returns False and
\* leaves the entry, last_updated_by_ai included, as it was.
C19_IdenticalUpsertIsNoChange ==
    [][(/\ ret'.op = "update_user_in_memory"
        /\ ret'.args[1] \in UserKeys(known_users)
        /\ LET info == known_users[UserIndex(known_users, ret'.args[1])]
           IN /\ info.description = ret'.args[2]
              /\ ret'.args[3] = None \/ info.name = ret'.args[3])
          => /\ ret'.value = Some(FALSE)
             /\ known_users' = known_users]_vars

\* C20: get_message_by_telegram_id(k, id) returns the first turn of thread k
\* with that id, and None when k is not in the store or no turn of k has the
\* id; after a successful add_message_to_chat(k, role, content, id) it
\* returns a turn with that role and content.
C20_GetMessageFindsTurn ==
    /\ \A k \in 1..MaxMsgId, id \in 1..MaxMsgId :
          LET r == get_message_by_telegram_id(active_chats, k, id)
          IN IF k \notin Keys(active_chats) THEN r = None
             ELSE LET msgs == Lookup(active_chats, k).messages
                  IN IF \A j \in DOMAIN msgs : msgs[j].telegram_message_id # id
                     THEN r = None
                     ELSE \E j \in DOMAIN msgs :
                             /\ msgs[j].telegram_message_id = id
                             /\ \A n \in 1..(j - 1) : msgs[n].telegram_message_id # id
                             /\ r = Some(msgs[j])
    /\ (ret.op = "add_message_to_chat" /\ ret.value = Some(TRUE))
          => get_message_by_telegram_id(active_chats, ret.args[1], ret.args[4])
                = Some(Message(ret.args[2], ret.args[3], ret.args[4]))
    /\ (ret.op = "get_message_by_telegram_id" /\ ret.value # None)
          => /\ ret.value[1].telegram_message_id = ret.args[2]
             /\ \E j \in DOMAIN Lookup(active_chats, ret.args[1]).messages :
                   Lookup(active_chats, ret.args[1]).messages[j] = ret.value[1]

\* C20 witness: a user's reply has been appended to a thread, with a thread
\* of another chat under way in the store, and is found under its id.
C20_Witness ==
    /\ ret.op = "add_message_to_chat"
    /\ ret.value = Some(TRUE)
    /\ ret.args[2] = "user"
    /\ Len(active_chats) >= 2
    /\ get_message_by_telegram_id(active_chats, ret.args[1], ret.args[4])
          = Some(Message("user", ret.args[3], ret.args[4]))
    /\ Lookup(active_chats, ret.args[1]).messages[3].telegram_message_id = ret.args[4]

\* Message dicts as count_message_tokens can be given them.
TurnInputs ==
    {[role |-> r, content |-> c] :
        r \in {"user", "assistant"}, c \in {"", "hi", "I am fine"}}
      \cup {[role |-> r, content |-> c, name |-> "update_user_profile"] :
              r \in {"user", "assistant"}, c \in {"", "hi", "I am fine"}}

\* The cost of the last n turns of a thread were the role to cost nothing.
RECURSIVE ContentCost(_, _)
ContentCost(msgs, n) ==
    IF n = 0 THEN 0
    ELSE 4 + count_tokens(msgs[Len(msgs) - n + 1].content) + ContentCost(msgs, n - 1)

\* C21 as stated: the estimate of a stored turn is the estimate of its
\* content plus 4, its role adding nothing.
C21_RoleCostsNothing ==
    \A i \in DOMAIN active_chats :
       \A j \in DOMAIN active_chats[i].messages :
          count_message_tokens(AiMessageFormat(active_chats[i].messages[j]))
             = 4 + count_tokens(active_chats[i].messages[j].content)

\* C21: count_message_tokens of a turn is 4 plus the estimates of all its
\* values, the role and the content and the name if there is one, minus 1
\* when it has a name; so for the turns of the store, which have no name,
\* 4 plus the estimates of role and content.
C21_TurnCostsEveryValue ==
    /\ \A m \in TurnInputs :
          count_message_tokens(m)
             = IF "name" \in DOMAIN m
               THEN 4 + TokenizerEncodeLen(m.role) + count_tokens(m.content)
                      + TokenizerEncodeLen(m.name) - 1
               ELSE 4 + TokenizerEncodeLen(m.role) + count_tokens(m.content)
    /\ \A i \in DOMAIN active_chats :
          \A j \in DOMAIN active_chats[i].messages :
             LET msg == active_chats[i].messages[j]
             IN count_message_tokens(AiMessageFormat(msg))
                   = 4 + TokenizerEncodeLen(msg.role) + count_tokens(msg.content)

\* C21 witness: get_history_for_ai has left out a turn that would have been
\* admitted had the roles cost nothing.
C21_Witness ==
    /\ ret.op = "get_history_for_ai"
    /\ ret.value # None
    /\ LET msgs == Lookup(active_chats, ret.args[1]).messages
           n == Len(ret.value[1])
       IN /\ n >= 1
          /\ n < Len(msgs)
          /\ system_prompt_tokens + ContentCost(msgs, n + 1) <= ContextWindowTokens

\* C22: a save of an empty store returns True and leaves the history file
\* as it was, neither written nor removed, whatever the file system would
\* have done with a write.
C22_EmptySaveTouchesNothing ==
    [][(ret'.op = "save_chat_histories" /\ active_chats = <<>>)
          => (ret'.value = Some(TRUE) /\ file' = file)]_vars

\* C22 witness: an empty store has been saved while the file held the
\* threads of an earlier run, and the file still holds them.
C22_Witness ==
    /\ ret.op = "save_chat_histories"
    /\ ret.value = Some(TRUE)
    /\ active_chats = <<>>
    /\ file.kind = "json"
    /\ file.data # <<>>

\* C23: a get_ai_response call makes at most two completion requests; the
\* first passes the tools, the second passes none and carries the first
\* request's messages, the assistant's message and one tool message for each
\* tool call of the first response; and the step that takes the second
\* response runs no tool and makes no request, whatever tool calls that
\* response holds.
C23_OneToolRound ==
    /\ [](LET api == req.api
          IN /\ Len(api.requests) <= 2
             /\ Len(api.requests) >= 1 => api.requests[1].tools
             /\ Len(api.requests) = 2
                   => /\ ~api.requests[2].tools
                      /\ api.requests[2].messages
                            = api.requests[1].messages \o <<"assistant">>
                                 \o [i \in 1..api.calls |-> "tool"])
    /\ [][/\ req.api.pc = "second"
             => /\ req'.api.pc \in {"second", "done"}
                /\ req'.api.requests = req.api.requests
                /\ req'.api.executed = req.api.executed
                /\ known_users' = known_users
                /\ known_users_file' = known_users_file
          /\ req.api.pc = "done"
             => \/ req'.api = req.api
                \/ req' = NoReq]_vars

\* C23 witness: a call has returned after two requests; the first response
\* had two tool calls of which one updated a user, and the second response
\* asked for tool calls again.
C23_Witness ==
    /\ req.api.pc = "done"
    /\ Len(req.api.requests) = 2
    /\ req.api.calls = 2
    /\ req.api.executed = 1
    /\ req.api.unanswered >= 1
    /\ known_users # <<>>

\* C24: an add_message_to_chat that returns True leaves the store with the
\* same threads in the same order, every other thread as it was, and thread
\* k with the same chat_id, its turns with the given role, content and id
\* appended as the one new last turn, and a last_interaction of now; and a
\* cleanup removes no thread whose last_interaction is at most the expiry
\* duration old.
C24_AppendAddsOneTurnAndRefreshes ==
    [][/\ (ret'.op = "add_message_to_chat" /\ ret'.value = Some(TRUE))
          => /\ ret'.args[1] \in Keys(active_chats)
             /\ Len(active_chats') = Len(active_chats)
             /\ \A n \in DOMAIN active_chats :
                   IF active_chats[n].key # ret'.args[1]
                   THEN active_chats'[n] = active_chats[n]
                   ELSE /\ active_chats'[n].key = active_chats[n].key
                        /\ active_chats'[n].chat_id = active_chats[n].chat_id
                        /\ active_chats'[n].last_interaction = now
                        /\ Len(active_chats'[n].messages)
                              = Len(active_chats[n].messages) + 1
                        /\ SubSeq(active_chats'[n].messages, 1,
                                  Len(active_chats[n].messages))
                              = active_chats[n].messages
                        /\ LET m == active_chats'[n].messages[
                                       Len(active_chats'[n].messages)]
                           IN /\ m.role = ret'.args[2]
                              /\ m.content = ret'.args[3]
                              /\ m.telegram_message_id = ret'.args[4]
       /\ ret'.op = "cleanup_expired_chats"
          => \A n \in DOMAIN active_chats :
                now - active_chats[n].last_interaction <= ChatHistoryExpirySeconds
                   => active_chats[n].key \in Keys(active_chats')]_vars

\* C24 witness: a turn has been appended to a thread, at a time after its
\* start, beside another thread that has not been touched since an earlier
\* time.
C24_Witness ==
    /\ ret.op = "add_message_to_chat"
    /\ ret.value = Some(TRUE)
    /\ now >= 1
    /\ Lookup(active_chats, ret.args[1]).last_interaction = now
    /\ Len(Lookup(active_chats, ret.args[1]).messages) >= 3
    /\ \E n \in DOMAIN active_chats :
          /\ active_chats[n].key # ret.args[1]
          /\ active_chats[n].last_interaction < now

\* C25 as stated: whenever a handler comes to await get_ai_response, for a
\* /mint as for a reply, the inbound turn is in a thread of the store, the
\* history handed over is what get_history_for_ai returns for that thread,
\* and it fits the budget with the system prompt.
C25_EveryRequestIsTrimmed ==
    [][(pc \notin Awaiting /\ pc' \in Awaiting)
          => /\ \E n \in DOMAIN active_chats' :
                   /\ active_chats'[n].chat_id = req'.chat_id
                   /\ HasMessage(active_chats'[n], req'.user_message_id)
                   /\ get_history_for_ai(active_chats', active_chats'[n].key,
                                         system_prompt_tokens)
                         = Some(req'.history)
             /\ system_prompt_tokens + SumTokens(req'.history)
                   <= ContextWindowTokens]_vars

\* C26 as stated: a thread that is stale (now - last_interaction above the
\* expiry duration) and still in the store is as good as absent:
\* _find_thread_key_for_reply does not return its key, and no reply appends
\* a turn to it, which would make its last_interaction now.
C26_StaleThreadIsAbsent ==
    /\ []((ret.op = "find_thread_key_for_reply" /\ ret.value # None)
             => now - Lookup(active_chats, ret.value[1]).last_interaction
                   <= ChatHistoryExpirySeconds)
    /\ [][(ret'.op = "add_message_to_chat" /\ ret'.value = Some(TRUE))
             => now - Lookup(active_chats, ret'.args[1]).last_interaction
                   <= ChatHistoryExpirySeconds]_vars

\* The threads a history file holds: one for each item of a JSON object that
\* has an integer key and the three fields.
PersistedThreads(f) ==
    IF f.kind # "json" THEN {}
    ELSE {Entry(StrToInt(f.data[i].key)[1], f.data[i].messages,
                f.data[i].last_interaction, f.data[i].chat_id) :
             i \in {n \in DOMAIN f.data :
                       /\ StrToInt(f.data[n].key) # None
                       /\ ItemFields \subseteq f.data[n].fields}}

\* C27: when the load of a starting process has returned, the threads of
\* the store are the threads of the history file that are not stale at that
\* time, each once, with the key, turns, last_interaction and chat_id the
\* file gives them; so none in the store is older than the expiry duration.
C27_LoadKeepsExactlyFresh ==
    [][ret'.op = "load_chat_histories"
          => /\ {active_chats'[n] : n \in DOMAIN active_chats'}
                   = {e \in PersistedThreads(file') :
                         now' - e.last_interaction <= ChatHistoryExpirySeconds}
             /\ \A m, n \in DOMAIN active_chats' :
                   active_chats'[m].key = active_chats'[n].key => m = n
             /\ \A n \in DOMAIN active_chats' :
                   now' - active_chats'[n].last_interaction
                      <= ChatHistoryExpirySeconds]_vars

\* C27 witness: a load has returned with some threads of the file in the
\* store and the others, stale, left out.
C27_Witness ==
    /\ ret.op = "load_chat_histories"
    /\ file.kind = "json"
    /\ Len(ret.log) >= 1
    /\ Len(active_chats) >= 1
    /\ Len(file.data) = Len(ret.log) + Len(active_chats)

\* Thread k is in the store and its last turn is older than the expiry
\* duration.
StaleInStore(k) ==
    /\ k \in Keys(active_chats)
    /\ now - Lookup(active_chats, k).last_interaction > ChatHistoryExpirySeconds

\* C28: with the cleanup job run fairly, a thread of the store that has
\* become older than the expiry duration is eventually out of the store,
\* unless a turn is appended to it or the process stops first.
C28_StaleEventuallyRemoved ==
    \A k \in 1..MaxMsgId :
       StaleInStore(k) ~> (k \notin Keys(active_chats)
                             \/ ~StaleInStore(k)
                             \/ pc = "stopped")

\* C28 witness: the job has run in a running process between two handlers
\* and removed two threads at once, both older than the expiry duration.
C28_Witness ==
    /\ ret.op = "cleanup_expired_chats"
    /\ pc = "idle"
    /\ Len(ret.log) = 2
    /\ active_chats = <<>>
    /\ now = MaxTime

\* C29: get_history_for_ai returns None exactly for a key that is not in
\* the store; for a thread of the store whose last turn does not fit the
\* budget beside the system prompt it returns the empty list, which is not
\* None; and so it is for the calls the reply handler makes.
C29_EmptyIsNotNotFound ==
    /\ \A k \in 1..MaxMsgId :
          LET h == get_history_for_ai(active_chats, k, system_prompt_tokens)
          IN /\ (h = None) <=> (k \notin Keys(active_chats))
             /\ k \in Keys(active_chats)
                   => LET msgs == Lookup(active_chats, k).messages
                      IN (system_prompt_tokens
                            + 4 + TokenizerEncodeLen(msgs[Len(msgs)].role)
                            + count_tokens(msgs[Len(msgs)].content)
                                > ContextWindowTokens)
                            => (h # None /\ Len(h) = 1 /\ Len(h[1]) = 0)
    /\ ret.op = "get_history_for_ai"
          => ((ret.value = None) <=> (ret.args[1] \notin Keys(active_chats)))

\* C29 witness: the reply handler has asked for the history of a thread of
\* the store and got the empty list, no turn fitting beside the system
\* prompt.
C29_Witness ==
    /\ ret.op = "get_history_for_ai"
    /\ ret.args[1] \in Keys(active_chats)
    /\ ret.value # None
    /\ Len(ret.value[1]) = 0
    /\ system_prompt_tokens > ContextWindowTokens

\* C30 as stated: cleanup_expired_chats returns the number of threads it
\* has removed, the size of the store before less its size after.
C30_CleanupReturnsCount ==
    [][ret'.op = "cleanup_expired_chats"
          => ret'.value = Some(Len(active_chats) - Len(active_chats'))]_vars

\* C30: cleanup_expired_chats returns nothing; the number of keys it logs
\* as cleaned up is the size of the store before less its size after, and
\* none when no thread was stale, the store then being left as it was.
C30_CleanupLogsCount ==
    [][ret'.op = "cleanup_expired_chats"
          => /\ ret'.value = None
             /\ Len(ret'.log) = Len(active_chats) - Len(active_chats')
             /\ (\A n \in DOMAIN active_chats :
                    now - active_chats[n].last_interaction
                       <= ChatHistoryExpirySeconds)
                   => (ret'.log = <<>> /\ active_chats' = active_chats)]_vars

\* C30 witness: a cleanup has removed two of the three threads of the
\* store and returned nothing.
C30_Witness ==
    /\ ret.op = "cleanup_expired_chats"
    /\ ret.value = None
    /\ Len(ret.log) = 2
    /\ Len(active_chats) = 1

\* C31 as stated: an assistant reply the reply handler sends is recorded as
\* a turn of the thread replied to, also when a cleanup has run while the
\* completion was awaited, so that a later reply to it finds the thread.
C31_SentReplyIsStored ==
    [][(pc = "reply_await" /\ ret'.op = "add_message_to_chat")
          => /\ ret'.value = Some(TRUE)
             /\ find_thread_key_for_reply(active_chats', ret'.args[4],
                                          req.chat_id) = Some(req.thread_key)]_vars

\* C32 as stated: no assistant turn of the store has for its content the
\* text get_ai_response returns for a client that is not configured or for
\* a completion that failed.
C32_NoErrorTextStored ==
    \A n \in DOMAIN active_chats :
       \A j \in DOMAIN active_chats[n].messages :
          active_chats[n].messages[j].role = "assistant"
             => active_chats[n].messages[j].content
                   \notin {get_ai_response(outcome) : outcome \in AiFailures}

\* C33 as stated: a reply handler that has appended the user's turn ends
\* only by sending one message to the chat, which takes the chat's next
\* message id.
C33_AppendedReplyIsAnswered ==
    [][(pc \in {"reply_history", "reply_await"} /\ pc' = "idle")
          => next_id' = [next_id EXCEPT ![req.chat_id] = @ + 1]]_vars

\* The reply being handled answers a message that no thread of its chat
\* holds.
UnmatchedReply ==
    /\ pc = "reply_find"
    /\ \A n \in DOMAIN active_chats :
          active_chats[n].chat_id = req.chat_id
             => ~HasMessage(active_chats[n], req.replied_to)

\* C35: the handler of a reply to a message that no active thread of the
\* same chat holds ends at once: the store and the file are as before, no
\* completion is awaited and no message id of the chat is used for an
\* outbound message. Its first step, which takes the update, leaves the
\* store alone as well.
C35_UnmatchedReplyDoesNothing ==
    /\ [][UnmatchedReply
            => /\ active_chats' = active_chats
               /\ file' = file
               /\ next_id' = next_id
               /\ pc' = "idle"
               /\ req' = NoReq]_vars
    /\ [][(pc = "idle" /\ pc' = "reply_find")
            => active_chats' = active_chats /\ file' = file]_vars

\* C35 happens: a reply was not matched and its handler is over, while a
\* thread of another chat holds a message with the id replied to.
C35_Witness ==
    /\ ret.op = "find_thread_key_for_reply"
    /\ ret.value = None
    /\ pc = "idle"
    /\ active_chats # <<>>
    /\ \E n \in DOMAIN active_chats :
          /\ active_chats[n].chat_id # ret.args[2]
          /\ HasMessage(active_chats[n], ret.args[1])

\* C36 as stated: an update_user_in_memory that returns False leaves the
\* ledger in memory as it was, without a new entry, and the ledger's file
\* as it was.
C36_FalseUpsertChangesNothing ==
    [][(ret'.op = "update_user_in_memory" /\ ret'.value = Some(FALSE))
          => /\ known_users' = known_users
             /\ known_users_file' = known_users_file]_vars

\* The thread of record e, by its chat and key, is in the list of threads.
HoldsThread(chats, e) ==
    \E n \in DOMAIN chats : chats[n].key = e.key /\ chats[n].chat_id = e.chat_id

\* C37: over any number of runs, a thread the cleanup job has removed in one
\* run is in the store of no later state, of the run it was removed in or of
\* a run started later, whatever the file held when that run loaded it.
C37_ExpiredThreadStaysOut ==
    \A e \in expired : ~HoldsThread(active_chats, e)

\* C37 happens: a run has started from a file that still holds a thread the
\* cleanup job of an earlier run had removed, the save at the shutdown in
\* between having found the store empty and left the file in place; the load
\* has dropped the thread.
C37_Witness ==
    /\ ret.op = "load_chat_histories"
    /\ pc = "idle"
    /\ last_save = Some(TRUE)
    /\ active_chats = <<>>
    /\ \E e \in expired :
          /\ \E th \in PersistedThreads(file) :
                th.key = e.key /\ th.chat_id = e.chat_id
          /\ \E j \in DOMAIN ret.log : ret.log[j] = e.key

\* C34: whatever allowed_chat_ids holds, every thread the handlers have put
\* in the store is of an allowed chat, a handler is past its whitelist check
\* (looking up, appending, awaiting the completion) only for an update of an
\* allowed chat, start_new_chat and add_message_to_chat are called only for
\* such an update, and with an empty list no step changes the store.
C34_OnlyAllowedChatsAreServed ==
    /\ [](\A n \in DOMAIN active_chats :
             active_chats[n].chat_id \in allowed_chat_ids)
    /\ [](pc \notin {"idle", "stopped"} => req.chat_id \in allowed_chat_ids)
    /\ [][ret'.op \in {"start_new_chat", "add_message_to_chat"}
            => req.chat_id \in allowed_chat_ids]_vars
    /\ [][allowed_chat_ids = {} => active_chats' = active_chats]_vars

\* C34 happens: the decorator has refused a /mint in a chat that is not in
\* the list, while the store holds a thread of a chat that is.
C34_Witness ==
    /\ ret.op = "restricted_to_allowed_chats"
    /\ ret.args[1] \notin allowed_chat_ids
    /\ allowed_chat_ids # {}
    /\ active_chats # <<>>
    /\ pc = "idle"

====
